---- MODULE Spec2Model ----
(***************************************************************************)
(* Verification model of the Jules session reconciliation engine           *)
(* (JulesMonitorService, OverseerAgent.checkOnJules) and of the            *)
(* single-session SmartPoller.                                             *)
(*                                                                         *)
(* Strings whose content the code inspects (resource names, metadata JSON, *)
(* agent messages) are sequences of one-character strings, so that split,  *)
(* contains and regular-expression tests are computed, not assumed.        *)
(***************************************************************************)
EXTENDS Integers, Sequences, FiniteSets, TLC

\* ------------------------------------------------------------------ bounds
\* Longest activity page the remote returns for one session.
MaxActs == 2
\* Most rows the JulesInteraction table may hold before the model stops adding.
MaxInteractions == 2
\* Most sendMessage calls recorded for one (session, question).
MaxSends == 2
\* Most events (sessions created, state changes, activities emitted) the remote
\* platform produces.
MaxRemoteEvents == 2
\* Most getSession calls of one SmartPoller.monitor() invocation.
MaxPolls == 5

\* ------------------------------------------------------------------ text
RECURSIVE Concat(_)
\* Concatenation of a sequence of character sequences.
Concat(parts) ==
    IF parts = <<>> THEN <<>> ELSE Head(parts) \o Concat(Tail(parts))

\* String.prototype.includes: needle occurs in hay as a contiguous substring.
Includes(hay, needle) ==
    \E i \in 1..(Len(hay) - Len(needle) + 1) :
        SubSeq(hay, i, i + Len(needle) - 1) = needle

\* String.prototype.toLowerCase, one character (Latin letters).
LowerChar(c) ==
    LET upper == <<"A", "B", "C", "D", "E", "F", "G", "H", "I", "J", "K", "L",
                   "M", "N", "O", "P", "Q", "R", "S", "T", "U", "V", "W", "X",
                   "Y", "Z">>
        lower == <<"a", "b", "c", "d", "e", "f", "g", "h", "i", "j", "k", "l",
                   "m", "n", "o", "p", "q", "r", "s", "t", "u", "v", "w", "x",
                   "y", "z">>
        at == {i \in 1..26 : upper[i] = c}
    IN  IF at = {} THEN c ELSE lower[CHOOSE i \in at : TRUE]

ToLowerCase(s) == [i \in 1..Len(s) |-> LowerChar(s[i])]

\* Index of the last "/" of s, 0 when there is none.
LastSlash(s) ==
    LET idx == {i \in 1..Len(s) : s[i] = "/"}
    IN  IF idx = {} THEN 0 ELSE CHOOSE i \in idx : \A j \in idx : j <= i

\* act.name.split("/").pop(): the text after the last "/".
LastSegment(s) == SubSeq(s, LastSlash(s) + 1, Len(s))

\* ------------------------------------------------------------------ domains
SessionIds == {"s1", "s2"}

IdText(id) == IF id = "s1" THEN <<"s", "1">> ELSE <<"s", "2">>

\* enum SessionState: the states the reconciler model lets the remote report.
SessionState ==
    {"QUEUED", "AWAITING_USER_FEEDBACK", "COMPLETED", "FAILED"}

\* A session id the remote does not (yet) know.
NoSession == "NONE"

\* The value of a property the response object does not have.
Undefined == "undefined"

TerminalStates == {"COMPLETED", "FAILED"}

ORIGIN_EXTERNAL == "EXTERNAL"
ORIGIN_INTERNAL == "INTERNAL"

AGENT_REPLY == "AGENT_REPLY"
ERROR == "ERROR"

\* Agent message texts. "~" stands for the U+FFFD character that surrounds
\* (error|stuck) in the pattern of OverseerAgent.checkOnJules.
QHow == <<"h", "o", "w", "?">>
QStuck == <<"~", "E", "r", "r", "o", "r", "~">>

\* Remote activity identifiers; "a1" is a substring of "a11".
ActivityIds == {<<"a", "1">>, <<"a", "1", "1">>}

\* Resource name of activity aid of session sid: sessions/{sid}/activities/{aid}.
ActivityName(sid, aid) ==
    Concat(<< <<"s", "e", "s", "s", "i", "o", "n", "s", "/">>, IdText(sid),
              <<"/", "a", "c", "t", "i", "v", "i", "t", "i", "e", "s", "/">>, aid >>)

\* interface Activity, reduced to the fields the reconciler reads. agentMessaged
\* is <<>> when the event is absent and <<text>> when present. Activity a1 is
\* an agent message (QStuck in session s1, QHow in s2), a11 is not one.
Activity(sid, aid) ==
    [name |-> ActivityName(sid, aid),
     description |-> <<>>,
     agentMessaged |->
        IF aid # <<"a", "1">> THEN <<>>
        ELSE IF sid = "s1" THEN <<QStuck>> ELSE <<QHow>>]

ActivitiesOf(sid) == {Activity(sid, aid) : aid \in ActivityIds}

\* ------------------------------------------------------------------ state
VARIABLES
    variant,        \* which JulesMonitorService source is deployed
    rState,         \* remote: session id -> state
    rActs,          \* remote: session id -> activity page, in API order
    sessions,       \* store: JulesSession rows, in insertion order
    activityLog,    \* store: ActivityLog rows
    interactions,   \* store: JulesInteraction rows
    pc,             \* position of the pass being executed
    batch,          \* rows loaded by the phase's query, still to process
    hist,           \* observations of the current pass (calls, counts)
    sent,           \* session id -> successful sendMessage calls since the
                    \* session's activity page last changed
    events,         \* number of remote events so far
    mirrored,       \* session id -> the session's current activity page has
                    \* been mirrored completely
    poller,         \* the SmartPoller and its monitor() invocation
    dispatch,       \* one handleUserFeedback dispatch, step by step
    overlap         \* two passes working on one session at the same time

monitorVars ==
    <<variant, rState, rActs, sessions, activityLog, interactions, pc, batch,
      hist, sent, events, mirrored>>

vars == <<monitorVars, poller, dispatch, overlap>>

\* ------------------------------------------------------------------ store
\* The lookup answering "no such row" whatever the table holds.
SessionExists_Never(rows, id) == FALSE

\* prisma.julesSession.findUnique({ where: { id } }): is there such a row.
SessionExists(rows, id) == \E i \in 1..Len(rows) : rows[i].id = id

\* The JulesSession row discovery creates for a listed remote session.
ExternalRow(ext) ==
    [id |-> ext.id, status |-> ext.state, origin |-> ORIGIN_EXTERNAL,
     completedAt |-> "null"]

\* Loop body of syncExternalSessions over the first n entries of the page:
\* <<rows, syncedCount>> afterwards.
RECURSIVE AdoptAll(_, _, _)
AdoptAll(rows, page, n) ==
    IF n = 0 THEN <<rows, 0>>
    ELSE LET prev == AdoptAll(rows, page, n - 1)
             ext == page[n]
         IN  IF SessionExists(prev[1], ext.id) THEN prev
             ELSE <<Append(prev[1], ExternalRow(ext)), prev[2] + 1>>

\* ------------------------------------------------------------------ init
NoCalls == [s \in SessionIds |-> 0]

NotYet == [s \in SessionIds |-> FALSE]

\* What a pass has observed so far:
\*   rowsBefore     number of JulesSession rows when the pass began
\*   listed         the listSessions response of the discovery call (kept until
\*                  active sync begins)
\*   synced         the return value of syncExternalSessions
\*   rerun          for a session whose page had been mirrored completely
\*                  before: "same" when mirroring it again created no row,
\*                  "grew" when it created one; "no" otherwise
\*   startStatus    stored status of each session when active sync began
\*   calls          remote calls active sync issued, per session
\*   fetched        remoteSession.state read by a status fetch that succeeded
\*   updateFailed   the status update of the session threw
\*   sentNow        messages the pass sent, per session
\*   interventions  the return value of checkForStuckSessions
\*   phases         the phases run() has entered, in order
\*   processed      ids of the loaded rows the loop of active sync has taken up
\*   stuck          ids of the rows the stuck query returned
\*   checked        ids of the stuck rows checkOnJules was called for
\*   freshness      what active sync did about DASHBOARD_LAST_SYNC: "written",
\*                  "skipped" (env.KV exists, no put was made), "unconfigured"
\*                  (no env.KV), "none" while the phase has not ended
\* The per-session observations of active sync are dropped when the phase ends.
NoListing == [ok |-> FALSE, ids |-> {}, failed |-> FALSE]

FreshHist ==
    [rowsBefore |-> 0, listed |-> NoListing,
     rerun |-> [s \in SessionIds |-> "no"],
     synced |-> 0, interventions |-> 0,
     calls |-> NoCalls,
     startStatus |-> [s \in SessionIds |-> NoSession],
     fetched |-> [s \in SessionIds |-> NoSession],
     updateFailed |-> NotYet,
     sentNow |-> NoCalls,
     phases |-> <<>>, processed |-> <<>>, stuck |-> <<>>, checked |-> <<>>,
     freshness |-> "none"]

\* No SmartPoller has been constructed.
PollerOff == [pc |-> "off"]

\* No dispatch is under way.
DispatchOff == [pc |-> "off"]

\* The two run() invocations that may be in progress at once.
Passes == {1, 2}

\* No overlapping passes are under way.
OverlapOff == [p \in Passes |-> [pc |-> "off"]]

Init ==
    /\ variant \in {"tools", "client"}
    /\ rState = [s \in SessionIds |-> IF s = "s1" THEN "QUEUED" ELSE NoSession]
    /\ rActs = [s \in SessionIds |-> <<>>]
    /\ sessions = <<>>
    /\ activityLog = <<>>
    /\ interactions = <<>>
    /\ pc = "idle"
    /\ batch = <<>>
    /\ hist = FreshHist
    /\ sent = NoCalls
    /\ events = 0
    /\ mirrored = NotYet
    /\ poller = PollerOff
    /\ dispatch = DispatchOff
    /\ overlap = OverlapOff

\* ------------------------------------------------------------------ remote
\* The remote platform, between passes: a session appears, changes state, or
\* emits an activity.
RemoteCreate(s) ==
    /\ pc = "idle"
    /\ events < MaxRemoteEvents
    /\ rState[s] = NoSession
    /\ rState' = [rState EXCEPT ![s] = "QUEUED"]
    /\ events' = events + 1
    /\ UNCHANGED <<overlap, dispatch, poller, variant, rActs, sessions, activityLog, interactions, pc,
                   batch, hist, sent, mirrored>>

RemoteAdvance(s, st) ==
    /\ pc = "idle"
    /\ events < MaxRemoteEvents
    /\ rState[s] \notin {NoSession, st}
    /\ st # "QUEUED"
    /\ rState' = [rState EXCEPT ![s] = st]
    /\ events' = events + 1
    /\ UNCHANGED <<overlap, dispatch, poller, variant, rActs, sessions, activityLog, interactions, pc,
                   batch, hist, sent, mirrored>>

RemoteEmit(s, act) ==
    /\ pc = "idle"
    /\ events < MaxRemoteEvents
    /\ rState[s] # NoSession
    /\ Len(rActs[s]) < MaxActs
    /\ rActs' = [rActs EXCEPT ![s] = Append(@, act)]
    /\ sent' = [sent EXCEPT ![s] = 0]
    /\ mirrored' = [mirrored EXCEPT ![s] = FALSE]
    /\ events' = events + 1
    /\ UNCHANGED <<overlap, dispatch, poller, variant, rState, sessions, activityLog, interactions, pc,
                   batch, hist>>

\* ------------------------------------------------------------------ run()
\* Pages listSessions can return: remote sessions, most recent first, in any
\* order the remote chooses.
SessionPages ==
    LET live == {s \in SessionIds : rState[s] # NoSession}
        entry(s) == [id |-> s, state |-> rState[s]]
    IN  {<<>>} \cup {<<entry(s)>> : s \in live}
               \cup {<<entry(s), entry(t)>> : s \in live, t \in live}

StartRun ==
    /\ pc = "idle"
    /\ pc' = "discover"
    /\ hist' = [FreshHist EXCEPT !.rowsBefore = Len(sessions)]
    /\ UNCHANGED <<overlap, dispatch, poller, variant, rState, rActs, sessions, activityLog, interactions,
                   batch, sent, events, mirrored>>

\* syncExternalSessions(): ok = FALSE is a failing listSessions; done is the
\* number of page entries processed before a store call throws (the whole page
\* when none does).
SyncExternalSessions ==
    /\ pc = "discover"
    /\ \E ok \in BOOLEAN, page \in SessionPages :
         \E done \in 0..Len(page) :
            LET res == IF ok THEN AdoptAll(sessions, page, done)
                       ELSE <<sessions, 0>>
            IN  /\ sessions' = res[1]
                /\ hist' = [hist EXCEPT
                      !.synced = res[2],
                      !.phases = Append(@, "discovery"),
                      !.listed = IF ok
                                 THEN [ok |-> TRUE,
                                       ids |-> {page[i].id : i \in 1..Len(page)},
                                       failed |-> done < Len(page)]
                                 ELSE [NoListing EXCEPT !.failed = TRUE]]
    /\ pc' = "activeQuery"
    /\ UNCHANGED <<overlap, dispatch, poller, variant, rState, rActs, activityLog, interactions, batch,
                   sent, events, mirrored>>

\* ------------------------------------------------------------------ mirror
\* JSON.stringify({ remote_id, full_resource, type: "JULES_SYNC", original_act }):
\* the text stored in ActivityLog.metadata.
MetadataJson(remoteId, act) ==
    Concat(<<
        <<"{", "\"", "r", "e", "m", "o", "t", "e", "_", "i", "d", "\"", ":", "\"">>,
        remoteId,
        <<"\"", ",", "\"", "f", "u", "l", "l", "_", "r", "e", "s", "o", "u", "r",
          "c", "e", "\"", ":", "\"">>,
        act.name,
        <<"\"", ",", "\"", "t", "y", "p", "e", "\"", ":", "\"", "J", "U", "L", "E",
          "S", "_", "S", "Y", "N", "C", "\"", ",", "\"", "o", "r", "i", "g", "i",
          "n", "a", "l", "_", "a", "c", "t", "\"", ":", "{", "\"", "n", "a", "m",
          "e", "\"", ":", "\"">>,
        act.name,
        <<"\"", ",", "\"", "d", "e", "s", "c", "r", "i", "p", "t", "i", "o", "n",
          "\"", ":", "\"">>,
        act.description,
        IF act.agentMessaged = <<>> THEN <<"\"", "}", "}">>
        ELSE Concat(<<
            <<"\"", ",", "\"", "a", "g", "e", "n", "t", "M", "e", "s", "s", "a",
              "g", "e", "d", "\"", ":", "{", "\"", "a", "g", "e", "n", "t", "M",
              "e", "s", "s", "a", "g", "e", "\"", ":", "\"">>,
            act.agentMessaged[1],
            <<"\"", "}", "}", "}">> >>) >>)

\* The ActivityLog row the mirror creates for an activity.
ActivityRow(sid, act) ==
    [sessionId |-> sid,
     remote_id |-> LastSegment(act.name),
     metadata |-> MetadataJson(LastSegment(act.name), act)]

\* The lookup comparing the whole metadata text with the remote id.
ActivityExists_Equals(log, sid, remoteId) ==
    \E i \in 1..Len(log) :
        /\ log[i].sessionId = sid
        /\ log[i].metadata = remoteId

\* prisma.activityLog.findFirst({ where: { sessionId, metadata: { contains } } }).
ActivityExists(log, sid, remoteId) ==
    \E i \in 1..Len(log) :
        /\ log[i].sessionId = sid
        /\ Includes(log[i].metadata, remoteId)

\* Loop of syncActivitiesForSession over the first n activities of the page.
RECURSIVE MirrorAll(_, _, _, _)
MirrorAll(log, sid, page, n) ==
    IF n = 0 THEN log
    ELSE LET prev == MirrorAll(log, sid, page, n - 1)
             act == page[n]
         IN  IF ActivityExists(prev, sid, LastSegment(act.name)) THEN prev
             ELSE Append(prev, ActivityRow(sid, act))

\* ------------------------------------------------------------------ active sync
\* The filter of the active query leaving out COMPLETED only.
IsActive_CompletedOnly(row) == row.status # "COMPLETED"

\* where: { status: { notIn: ['COMPLETED', 'FAILED'] } }
IsActive(row) == row.status \notin {"COMPLETED", "FAILED"}

\* Where run() continues after runActiveSessionSync().
AfterActiveSync == IF variant = "tools" THEN "stuck" ELSE "return"

\* What the code reads as remoteSession.state: the client variant calls
\* getSession; the tools variant calls JulesGetActivityTool.execute, whose
\* result is a ListActivitiesResponse and has no state property.
RemoteSessionState(id) ==
    IF variant = "tools" THEN Undefined ELSE rState[id]

\* The update that leaves out the where clause and writes every row.
UpdateStatus_AllRows(rows, id, state) ==
    [i \in 1..Len(rows) |->
        [rows[i] EXCEPT
            !.status = IF state = Undefined THEN @ ELSE state,
            !.completedAt = IF state = "COMPLETED" \/ state = "FAILED"
                            THEN "set" ELSE "null"]]

\* prisma.julesSession.update({ where: { id }, data: { status, completedAt } });
\* Prisma leaves a column whose value is undefined as it is.
UpdateStatus(rows, id, state) ==
    [i \in 1..Len(rows) |->
        IF rows[i].id = id
        THEN [rows[i] EXCEPT
                !.status = IF state = Undefined THEN @ ELSE state,
                !.completedAt = IF state = "COMPLETED" \/ state = "FAILED"
                                THEN "set" ELSE "null"]
        ELSE rows[i]]

StatusOf(rows, id) ==
    IF SessionExists(rows, id)
    THEN (CHOOSE r \in {rows[i] : i \in 1..Len(rows)} : r.id = id).status
    ELSE NoSession

\* runActiveSessionSync(), up to the loop: the findMany of non-terminal rows.
\* A throwing query propagates out of run(). With no active row the method
\* returns at once; kv tells whether the deployment has the KV binding.
LoadActiveSessions ==
    /\ pc = "activeQuery"
    /\ \E ok \in BOOLEAN, kv \in {"absent", "present"} :
         LET active == SelectSeq(sessions, IsActive)
         IN  IF ~ok
             THEN /\ pc' = "threw"
                  /\ batch' = <<>>
                  /\ hist' = [hist EXCEPT !.listed = NoListing,
                                          !.phases = Append(@, "activeSync")]
             ELSE /\ pc' = IF active = <<>> THEN AfterActiveSync ELSE "activeLoop"
                  /\ batch' = active
                  /\ hist' = [hist EXCEPT
                        !.listed = NoListing,
                        !.phases = Append(@, "activeSync"),
                        !.freshness = IF active # <<>> THEN "none"
                                      ELSE IF kv = "present" THEN "skipped"
                                      ELSE "unconfigured",
                        !.startStatus = [s \in SessionIds |-> StatusOf(sessions, s)]]
    /\ UNCHANGED <<overlap, dispatch, poller, variant, rState, rActs, sessions, activityLog, interactions,
                   sent, events, mirrored>>

\* The catch of the loop body ending the loop at the first failure.
RestAfter_Abort(rest, failed) == IF failed THEN <<>> ELSE rest

\* for (const dbSession of activeSessions) { try { ... } catch (e) { log } }:
\* the rows still to process after an iteration, failed telling whether it
\* ended in the catch.
RestAfter(rest, failed) == rest

\* One iteration of the loop of runActiveSessionSync(), for the next loaded
\* row: status fetch, status update, activity mirror. fetchOk, updateOk and
\* listOk are the outcomes of the remote and store calls; done is the number of
\* activities mirrored before a store call throws.
SyncSession ==
    /\ pc = "activeLoop"
    /\ batch # <<>>
    /\ LET db == Head(batch)
           state == RemoteSessionState(db.id)
           changed == state # db.status
       IN  \E fetchOk \in BOOLEAN, updateOk \in BOOLEAN, listOk \in BOOLEAN :
           \E done \in 0..Len(rActs[db.id]) :
              LET updated == fetchOk /\ changed /\ updateOk
                  mirror == fetchOk /\ (changed => updateOk)
                  log == IF mirror /\ listOk
                         THEN MirrorAll(activityLog, db.id, rActs[db.id], done)
                         ELSE activityLog
              IN  /\ sessions' = IF updated
                                 THEN UpdateStatus(sessions, db.id, state)
                                 ELSE sessions
                  /\ batch' = RestAfter(Tail(batch), ~mirror)
                  /\ activityLog' = log
                  /\ mirrored' = [mirrored EXCEPT ![db.id] =
                        @ \/ (mirror /\ listOk /\ done = Len(rActs[db.id]))]
                  /\ hist' = [hist EXCEPT
                        !.processed = Append(@, db.id),
                        !.calls[db.id] = @ + 1 + (IF mirror THEN 1 ELSE 0),
                        !.fetched[db.id] = IF fetchOk THEN state ELSE @,
                        !.updateFailed[db.id] = fetchOk /\ changed /\ ~updateOk,
                        !.rerun[db.id] =
                            IF ~(mirror /\ listOk /\ mirrored[db.id]) THEN "no"
                            ELSE IF log = activityLog THEN "same" ELSE "grew"]
    /\ UNCHANGED <<overlap, dispatch, poller, variant, rState, rActs, interactions, pc, sent, events>>

\* End of runActiveSessionSync(): the KV put of DASHBOARD_LAST_SYNC when the
\* KV binding exists; a throwing put propagates out of run().
FinishActiveSync ==
    /\ pc = "activeLoop"
    /\ batch = <<>>
    /\ \E kv \in {"absent", "ok", "throws"} :
         /\ pc' = IF kv = "throws" THEN "threw" ELSE AfterActiveSync
         /\ hist' = [FreshHist EXCEPT
                        !.synced = hist.synced,
                        !.rowsBefore = hist.rowsBefore,
                        !.phases = hist.phases,
                        !.freshness = IF kv = "ok" THEN "written"
                                      ELSE IF kv = "absent" THEN "unconfigured"
                                      ELSE "none"]
    /\ UNCHANGED <<overlap, dispatch, poller, variant, rState, rActs, sessions, activityLog, interactions,
                   batch, sent, events, mirrored>>

\* ------------------------------------------------------------------ interventions
\* /~(error|stuck)~/i.test(text), "~" being the U+FFFD character of the source.
StuckPattern(text) ==
    \/ Includes(ToLowerCase(text), <<"~", "e", "r", "r", "o", "r", "~">>)
    \/ Includes(ToLowerCase(text), <<"~", "s", "t", "u", "c", "k", "~">>)

\* lastActivity?.agentMessaged?.agentMessage of checkOnJules: the message of the
\* last activity of the page, <<>> when there is none.
LastActivityMessage(page) ==
    IF page = <<>> THEN <<>>
    ELSE IF page[Len(page)].agentMessaged = <<>> THEN <<>>
    ELSE page[Len(page)].agentMessaged[1]

\* activities.find(a => a.agentMessaged)?.agentMessaged?.agentMessage of
\* handleUserFeedback: the message of the first activity of the page that
\* carries one, <<>> when there is none.
FirstAgentMessage(page) ==
    LET idx == {i \in 1..Len(page) : page[i].agentMessaged # <<>>}
    IN  IF idx = {} THEN <<>>
        ELSE page[CHOOSE i \in idx : \A j \in idx : i <= j].agentMessaged[1]

\* The ways one OverseerAgent.checkOnJules(sid) call can end: "threw" (the
\* activity read, the docs search or the send failed), "null" (no matching
\* message, or no solution found), "sent" (sendMessage succeeded).
CheckOnJulesOutcomes(sid) ==
    LET msg == LastActivityMessage(rActs[sid])
    IN  IF rState[sid] = NoSession THEN {"threw"}
        ELSE IF msg # <<>> /\ StuckPattern(msg) THEN {"threw", "null", "sent"}
        ELSE {"threw", "null"}

\* The send counters after checkOnJules(sid) ended with outcome o.
AfterCheckOnJules(snt, sid, o) ==
    IF o = "sent"
    THEN [snt EXCEPT ![sid] = @ + 1]
    ELSE snt

\* OverseerAgent.checkOnJules(sid), called on its own.
CheckOnJules(sid) ==
    /\ pc = "idle"
    /\ variant = "tools"
    /\ \E o \in CheckOnJulesOutcomes(sid) :
         /\ o = "sent" => sent[sid] < MaxSends
         /\ sent' = AfterCheckOnJules(sent, sid, o)
    /\ UNCHANGED <<overlap, dispatch, poller, variant, rState, rActs, sessions, activityLog, interactions,
                   pc, batch, hist, events, mirrored>>

\* where: { status: "WAITING_FOR_USER_FEEDBACK" } of checkForStuckSessions.
IsStuck(row) == row.status = "WAITING_FOR_USER_FEEDBACK"

\* Loop of checkForStuckSessions over the first n stuck rows, outcome[id] being
\* how checkOnJules ends for that row: <<send counters, interventions, threw,
\* ids checkOnJules was called for>>.
RECURSIVE StuckLoop(_, _, _)
StuckLoop(stuck, outcome, n) ==
    IF n = 0 THEN <<sent, 0, FALSE, <<>> >>
    ELSE LET prev == StuckLoop(stuck, outcome, n - 1)
             sid == stuck[n].id
         IN  IF prev[3] THEN prev
             ELSE IF outcome[sid] = "threw"
             THEN <<prev[1], prev[2], TRUE, Append(prev[4], sid)>>
             ELSE <<AfterCheckOnJules(prev[1], sid, outcome[sid]), prev[2] + 1,
                    FALSE, Append(prev[4], sid)>>

\* checkForStuckSessions() (tools variant). The query or a checkOnJules call
\* that throws propagates out of run().
CheckForStuckSessions ==
    /\ pc = "stuck"
    /\ \E ok \in BOOLEAN :
       \E outcome \in [SessionIds -> {"threw", "null", "sent"}] :
         LET stuck == SelectSeq(sessions, IsStuck)
             res == StuckLoop(stuck, outcome, Len(stuck))
         IN  /\ \A i \in 1..Len(stuck) :
                    outcome[stuck[i].id] \in CheckOnJulesOutcomes(stuck[i].id)
             /\ \A s \in SessionIds : res[1][s] <= MaxSends
             /\ IF ~ok \/ res[3]
                THEN /\ pc' = "threw"
                     /\ hist' = [hist EXCEPT
                            !.phases = Append(@, "interventions"),
                            !.stuck = IF ok THEN [i \in 1..Len(stuck) |-> stuck[i].id]
                                      ELSE <<>>,
                            !.checked = IF ok THEN res[4] ELSE <<>>]
                     /\ sent' = IF ok THEN res[1] ELSE sent
                ELSE /\ pc' = "return"
                     /\ hist' = [hist EXCEPT
                            !.phases = Append(@, "interventions"),
                            !.stuck = [i \in 1..Len(stuck) |-> stuck[i].id],
                            !.checked = res[4],
                            !.interventions = res[2],
                            !.sentNow = [s \in SessionIds |->
                                IF \E i \in 1..Len(stuck) :
                                      stuck[i].id = s /\ outcome[s] = "sent"
                                THEN 1 ELSE 0]]
                     /\ sent' = res[1]
    /\ UNCHANGED <<overlap, dispatch, poller, variant, rState, rActs, sessions, activityLog, interactions,
                   batch, events, mirrored>>

\* run() returns { synced, checked: 0, interventions } to scheduled(), or
\* throws and scheduled() catches and logs the error.
Return ==
    /\ pc \in {"return", "threw"}
    /\ pc' = "idle"
    /\ hist' = FreshHist
    /\ UNCHANGED <<overlap, dispatch, poller, variant, rState, rActs, sessions, activityLog, interactions,
                   batch, sent, events, mirrored>>

\* ------------------------------------------------------------------ handleUserFeedback
\* The loop-prevention lookup without the type filter.
ExistingReply_AnyType(rows, sid, question) ==
    \E i \in 1..Len(rows) :
        /\ rows[i].sessionId = sid
        /\ rows[i].julesMessage = question

\* The loop-prevention lookup searching the ERROR rows.
ExistingReply_ErrorRows(rows, sid, question) ==
    \E i \in 1..Len(rows) :
        /\ rows[i].sessionId = sid
        /\ rows[i].type = ERROR
        /\ rows[i].julesMessage = question

\* prisma.julesInteraction.findFirst({ where: { sessionId, type: AGENT_REPLY,
\* julesMessage } }): the loop-prevention lookup.
ExistingReply(rows, sid, question) ==
    \E i \in 1..Len(rows) :
        /\ rows[i].sessionId = sid
        /\ rows[i].type = AGENT_REPLY
        /\ rows[i].julesMessage = question

\* The row logInteraction creates.
InteractionRow(sid, type, question, isSuccess) ==
    [sessionId |-> sid, type |-> type, julesMessage |-> question,
     isSuccess |-> isSuccess]

\* The sessions the dispatcher hands to handleUserFeedback: stored rows whose
\* status is the awaiting-user-feedback state.
FeedbackDispatch(sid) ==
    StatusOf(sessions, sid) = "AWAITING_USER_FEEDBACK"

\* handleUserFeedback(dbSession, liveSession) for the stored session sid.
\* listOk, findOk, sendOk, replyLogOk and errorLogOk are the outcomes of
\* listActivities, of the loop-prevention findFirst, of sendMessage, and of the
\* logInteraction calls in the try block and in the catch block.
HandleUserFeedback(sid) ==
    /\ pc = "idle"
    /\ variant = "client"
    /\ FeedbackDispatch(sid)
    /\ \E listOk \in BOOLEAN, findOk \in BOOLEAN, sendOk \in BOOLEAN,
          replyLogOk \in BOOLEAN, errorLogOk \in BOOLEAN :
         LET question == FirstAgentMessage(rActs[sid])
             skip == \/ ~listOk
                     \/ question = <<>>
                     \/ ~findOk
                     \/ ExistingReply(interactions, sid, question)
         IN  IF skip
             THEN UNCHANGED <<interactions, sent>>
             ELSE /\ Len(interactions) < MaxInteractions
                  /\ sent[sid] < MaxSends
                  /\ sent' = IF sendOk THEN [sent EXCEPT ![sid] = @ + 1] ELSE sent
                  /\ interactions' =
                        IF sendOk /\ replyLogOk
                        THEN Append(interactions,
                                    InteractionRow(sid, AGENT_REPLY, question, TRUE))
                        ELSE IF errorLogOk
                        THEN Append(interactions,
                                    InteractionRow(sid, ERROR, question, FALSE))
                        ELSE interactions
    /\ UNCHANGED <<overlap, dispatch, poller, variant, rState, rActs, sessions, activityLog, pc, batch, hist, events, mirrored>>

\* ------------------------------------------------------------------ createTrackedSession
\* The JulesSession row createTrackedSession creates for the new remote session.
InternalRow(id, state) ==
    [id |-> id, status |-> state, origin |-> ORIGIN_INTERNAL,
     completedAt |-> "null"]

\* createTrackedSession(params): the remote creates session sid (state QUEUED);
\* storeOk is the outcome of the prisma create that follows.
CreateTrackedSession(sid) ==
    /\ pc = "idle"
    /\ variant = "client"
    /\ rState[sid] = NoSession
    /\ rState' = [rState EXCEPT ![sid] = "QUEUED"]
    /\ \E storeOk \in BOOLEAN :
         sessions' = IF storeOk
                     THEN Append(sessions, InternalRow(sid, "QUEUED"))
                     ELSE sessions
    /\ UNCHANGED <<overlap, dispatch, poller, variant, rActs, activityLog, interactions, pc, batch, hist,
                   sent, events, mirrored>>

\* ------------------------------------------------------------------ poller
\* SmartPoller.monitor(sessionId), one invocation.  The wall clock is counted
\* in milliseconds since startTime.

\* Every value of the SessionState enum a session snapshot may carry.
AllSessionStates ==
    {"STATE_UNSPECIFIED", "QUEUED", "PLANNING", "AWAITING_PLAN_APPROVAL",
     "AWAITING_USER_FEEDBACK", "IN_PROGRESS", "PAUSED", "FAILED", "COMPLETED"}

\* Defaults of the constructor and the fixed delay after an approval.
DefaultIntervalMs == 5000
DefaultTimeoutMs == 60 * 60 * 1000
ApproveDelayMs == 1000

\* Options a caller may pass.  0 stands for an omitted number as well: the
\* constructor applies || to both.
GivenIntervals == {0, 2000}
GivenTimeouts == {0, 3000}
GivenAutoApprove == {Undefined, "true", "false"}
\* Time one remote call may take: immediate, one second, or a stall as long as
\* the default timeout.
Latencies == {0, 1000, 3600000}

\* options.x || d
OrDefault(x, d) == IF x = 0 THEN d ELSE x

\* The constructor: this.options.
Options(intervalMs, timeoutMs, autoApprove) ==
    [intervalMs |-> OrDefault(intervalMs, DefaultIntervalMs),
     timeoutMs |-> OrDefault(timeoutMs, DefaultTimeoutMs),
     autoApprove |-> IF autoApprove = Undefined THEN TRUE
                     ELSE autoApprove = "true"]

\* A session snapshot: its state and the getSession call that returned it.
Snapshot(state, fetch) == [state |-> state, fetch |-> fetch]
NoSnapshot == Snapshot(NoSession, 0)

GenericFeedback ==
    <<"A", "g", "e", "n", "t", " ", "i", "s", " ", "r", "e", "q", "u", "e",
      "s", "t", "i", "n", "g", " ", "f", "e", "e", "d", "b", "a", "c", "k",
      ".">>

\* activities.activities?.[0]?.agentMessaged?.agentMessage || generic
LastMsg(page) ==
    IF page = <<>> THEN GenericFeedback
    ELSE IF page[1].agentMessaged = <<>> THEN GenericFeedback
    ELSE IF page[1].agentMessaged[1] = <<>> THEN GenericFeedback
    ELSE page[1].agentMessaged[1]

\* Pages listActivities(sessionId, {pageSize: 1}) may return.
LastPages == {<<>>} \cup {<<Activity("s1", aid)>> : aid \in ActivityIds}

PollResult(status, session, lastMessage) ==
    [status |-> status, session |-> session, lastMessage |-> lastMessage]
NoResult == PollResult("none", NoSnapshot, <<>>)

\* The poller before monitor() is called.
NewPoller(options) ==
    [pc |-> "new", opts |-> options, now |-> 0, polls |-> 0, approves |-> 0,
     finals |-> 0, lastState |-> "null", reports |-> 0,
     apaRuns |-> 0, apaRepeated |-> FALSE, waitingOnly |-> TRUE,
     exitAt |-> 0, fetchedAt |-> 0, lists |-> 0, changes |-> 0,
     result |-> NoResult]

\* monitor(): startTime = Date.now(), lastState = null.
MonitorStart ==
    /\ poller.pc = "new"
    /\ poller' = [poller EXCEPT !.pc = "check"]
    /\ UNCHANGED <<monitorVars, dispatch, overlap>>

\* The deadline test with the comparison including the deadline itself.
BeforeDeadline_Inclusive(elapsed, timeoutMs) == elapsed <= timeoutMs

\* while (Date.now() - startTime < this.options.timeoutMs)
BeforeDeadline(elapsed, timeoutMs) == elapsed < timeoutMs

MonitorLoopHead ==
    /\ poller.pc = "check"
    /\ poller' = IF BeforeDeadline(poller.now, poller.opts.timeoutMs)
                 THEN [poller EXCEPT !.pc = "fetch"]
                 ELSE [poller EXCEPT !.pc = "final", !.exitAt = poller.now]
    /\ UNCHANGED <<monitorVars, dispatch, overlap>>

\* if (session.state !== lastState) { log; lastState = session.state }
Reported(p, state) ==
    IF state # p.lastState
    THEN [p EXCEPT !.lastState = state, !.reports = p.reports + 1]
    ELSE p

\* The test that lets every plan be approved, whatever the options say.
AutoApprove_Always(p) == TRUE

\* if (this.options.autoApprove)
AutoApprove(p) == p.opts.autoApprove

\* The switch on session.state, given the snapshot and the time the iteration
\* has reached.
Switch(p, session, approveOk, listOk, page) ==
    CASE session.state = "COMPLETED" ->
           [p EXCEPT !.pc = "done",
                     !.result = PollResult("COMPLETED", session, <<>>)]
      [] session.state = "FAILED" ->
           [p EXCEPT !.pc = "done",
                     !.result = PollResult("FAILED", session, <<>>)]
      [] session.state = "AWAITING_PLAN_APPROVAL" ->
           IF AutoApprove(p)
           THEN IF approveOk
                THEN [p EXCEPT !.pc = "check",
                               !.approves = p.approves + 1,
                               !.now = p.now + ApproveDelayMs]
                ELSE [p EXCEPT !.pc = "threw"]
           ELSE [p EXCEPT !.pc = "done",
                          !.result = PollResult("NEEDS_INPUT", session, <<>>)]
      [] session.state = "AWAITING_USER_FEEDBACK" ->
           IF listOk
           THEN [p EXCEPT !.pc = "done",
                          !.lists = p.lists + 1,
                          !.result = PollResult("NEEDS_INPUT", session,
                                                LastMsg(page))]
           ELSE [p EXCEPT !.pc = "threw", !.lists = p.lists + 1]
      [] session.state = "PAUSED" ->
           [p EXCEPT !.pc = "done",
                     !.result = PollResult("NEEDS_INPUT", session, <<>>)]
      [] OTHER ->
           [p EXCEPT !.pc = "check", !.now = p.now + p.opts.intervalMs]

\* States on which the loop goes round again.
Waiting(p, state) ==
    \/ state \in {"STATE_UNSPECIFIED", "QUEUED", "PLANNING", "IN_PROGRESS"}
    \/ state = "AWAITING_PLAN_APPROVAL" /\ p.opts.autoApprove

\* One iteration of the loop body: getSession, the report, the switch, the
\* delay.
MonitorPoll ==
    /\ poller.pc = "fetch"
    /\ poller.polls < MaxPolls
    /\ \E ok \in BOOLEAN, state \in AllSessionStates, lat \in Latencies,
          approveOk \in BOOLEAN, listOk \in BOOLEAN, page \in LastPages :
         LET fetched == [poller EXCEPT !.polls = poller.polls + 1,
                                       !.now = poller.now + lat,
                                       !.fetchedAt = poller.now + lat]
             noted == [Reported(fetched, state) EXCEPT
                         !.changes =
                             IF state # poller.lastState
                             THEN poller.changes + 1 ELSE poller.changes,
                         !.apaRuns =
                             IF /\ state = "AWAITING_PLAN_APPROVAL"
                                /\ poller.lastState # "AWAITING_PLAN_APPROVAL"
                             THEN poller.apaRuns + 1
                             ELSE poller.apaRuns,
                         !.apaRepeated =
                             \/ poller.apaRepeated
                             \/ /\ state = "AWAITING_PLAN_APPROVAL"
                                /\ poller.lastState = "AWAITING_PLAN_APPROVAL",
                         !.waitingOnly =
                             poller.waitingOnly /\ Waiting(poller, state)]
         IN  poller' = IF ok
                       THEN Switch(noted, Snapshot(state, fetched.polls),
                                   approveOk, listOk, page)
                       ELSE [fetched EXCEPT !.pc = "threw"]
    /\ UNCHANGED <<monitorVars, dispatch, overlap>>

\* After the loop: one more getSession, returned as the TIMEOUT result.  The
\* final snapshot is not compared with lastState.
MonitorTimeout ==
    /\ poller.pc = "final"
    /\ poller.polls < MaxPolls
    /\ \E ok \in BOOLEAN, state \in AllSessionStates, lat \in Latencies :
         LET fetched == [poller EXCEPT !.polls = poller.polls + 1,
                                       !.finals = poller.finals + 1,
                                       !.now = poller.now + lat,
                                       !.fetchedAt = poller.now + lat]
         IN  poller' = IF ok
                       THEN [fetched EXCEPT
                               !.pc = "done",
                               !.changes =
                                   IF state # poller.lastState
                                   THEN poller.changes + 1
                                   ELSE poller.changes,
                               !.result = PollResult("TIMEOUT",
                                   Snapshot(state, fetched.polls), <<>>)]
                       ELSE [fetched EXCEPT !.pc = "threw"]
    /\ UNCHANGED <<monitorVars, dispatch, overlap>>

PollerInit ==
    /\ variant = "tools"
    /\ rState = [s \in SessionIds |-> IF s = "s1" THEN "QUEUED" ELSE NoSession]
    /\ rActs = [s \in SessionIds |-> <<>>]
    /\ sessions = <<>>
    /\ activityLog = <<>>
    /\ interactions = <<>>
    /\ pc = "idle"
    /\ batch = <<>>
    /\ hist = FreshHist
    /\ sent = NoCalls
    /\ events = 0
    /\ mirrored = NotYet
    /\ \E i \in GivenIntervals, t \in GivenTimeouts, a \in GivenAutoApprove :
         poller = NewPoller(Options(i, t, a))
    /\ dispatch = DispatchOff
    /\ overlap = OverlapOff

PollerNext ==
    \/ MonitorStart
    \/ MonitorLoopHead
    \/ MonitorPoll
    \/ MonitorTimeout

PollerSpec == PollerInit /\ [][PollerNext]_vars

\* ------------------------------------------------------------------ dispatch
\* handleUserFeedback from the point where a question is to be answered:
\* context parsing, generateIntervention, generateFallbackResponse, the send
\* and the interaction log.

\* Longest question, counted in fragments.
MaxWords == 2

\* Fragments the questions are assembled from.
Fragments ==
    {<<"E", "r", "r", "o", "r">>, <<"F", "A", "I", "L", "E", "D">>,
     <<"H", "o", "w">>, <<"s", "h", "o", "u", "l", "d">>, <<"o", "k">>,
     <<"s">>, <<" ">>}

\* julesQuestion: every text of at most MaxWords fragments.
Questions ==
    {Concat(ws) : ws \in UNION {[1..n -> Fragments] : n \in 0..MaxWords}}

\* Binding lists a context may carry.
BindingLists ==
    {<<>>, << <<"K", "V">> >>, << <<"K", "V">>, <<"D", "1">> >>}

\* The four lists of an EnhancedContext.
ListNames == {"bindings", "techStack", "constraints", "documentation"}

\* { bindings: [], techStack: [], constraints: [], documentation: [] }
EmptyContext == [lists |-> ListNames, bindings |-> <<>>]

\* Values of the enhancedContext column: null, the empty string, a text that
\* is not JSON, the text "{}", and the JSON of an EnhancedContext.
ContextBlobs ==
    {[kind |-> k, lists |-> {}, bindings |-> <<>>] :
        k \in {"null", "empty", "malformed"}}
    \cup {[kind |-> "json", lists |-> {}, bindings |-> <<>>]}
    \cup {[kind |-> "json", lists |-> ListNames, bindings |-> b] :
            b \in BindingLists}

\* dbSession.enhancedContext ? JSON.parse(dbSession.enhancedContext) : default.
\* ok = FALSE is the SyntaxError of JSON.parse.
ParseEnhancedContext(blob) ==
    IF blob.kind \in {"null", "empty"}
    THEN [ok |-> TRUE, context |-> EmptyContext]
    ELSE IF blob.kind = "malformed"
    THEN [ok |-> FALSE, context |-> EmptyContext]
    ELSE [ok |-> TRUE,
          context |-> [lists |-> blob.lists, bindings |-> blob.bindings]]

\* lines.join(sep)
RECURSIVE Join(_, _)
Join(lines, sep) ==
    IF lines = <<>> THEN <<>>
    ELSE IF Len(lines) = 1 THEN lines[1]
    ELSE lines[1] \o sep \o Join(Tail(lines), sep)

\* "Based on your question, here's what I recommend:"
Preamble ==
    <<"B", "a", "s", "e", "d", " ", "o", "n", " ", "y", "o", "u", "r", " ",
      "q", "u", "e", "s", "t", "i", "o", "n", ",", " ", "h", "e", "r", "e",
      "'", "s", " ", "w", "h", "a", "t", " ", "I", " ", "r", "e", "c", "o",
      "m", "m", "e", "n", "d", ":">>

\* "Note: This project uses: "
NoteHead ==
    <<"N", "o", "t", "e", ":", " ", "T", "h", "i", "s", " ", "p", "r", "o",
      "j", "e", "c", "t", " ", "u", "s", "e", "s", ":", " ">>

\* "1. Check the error message for specific details"
Check1 ==
    <<"1", ".", " ", "C", "h", "e", "c", "k", " ", "t", "h", "e", " ", "e",
      "r", "r", "o", "r", " ", "m", "e", "s", "s", "a", "g", "e", " ", "f",
      "o", "r", " ", "s", "p", "e", "c", "i", "f", "i", "c", " ", "d", "e",
      "t", "a", "i", "l", "s">>

\* "2. Verify all required environment variables are set"
Check2 ==
    <<"2", ".", " ", "V", "e", "r", "i", "f", "y", " ", "a", "l", "l", " ",
      "r", "e", "q", "u", "i", "r", "e", "d", " ", "e", "n", "v", "i", "r",
      "o", "n", "m", "e", "n", "t", " ", "v", "a", "r", "i", "a", "b", "l",
      "e", "s", " ", "a", "r", "e", " ", "s", "e", "t">>

\* "3. Ensure wrangler.toml has correct bindings configured"
Check3 ==
    <<"3", ".", " ", "E", "n", "s", "u", "r", "e", " ", "w", "r", "a", "n",
      "g", "l", "e", "r", ".", "t", "o", "m", "l", " ", "h", "a", "s", " ",
      "c", "o", "r", "r", "e", "c", "t", " ", "b", "i", "n", "d", "i", "n",
      "g", "s", " ", "c", "o", "n", "f", "i", "g", "u", "r", "e", "d">>

\* "Please proceed with your best judgment based on the requirements."
Judgment1 ==
    <<"P", "l", "e", "a", "s", "e", " ", "p", "r", "o", "c", "e", "e", "d",
      " ", "w", "i", "t", "h", " ", "y", "o", "u", "r", " ", "b", "e", "s",
      "t", " ", "j", "u", "d", "g", "m", "e", "n", "t", " ", "b", "a", "s",
      "e", "d", " ", "o", "n", " ", "t", "h", "e", " ", "r", "e", "q", "u",
      "i", "r", "e", "m", "e", "n", "t", "s", ".">>

\* "I trust your implementation approach."
Judgment2 ==
    <<"I", " ", "t", "r", "u", "s", "t", " ", "y", "o", "u", "r", " ", "i",
      "m", "p", "l", "e", "m", "e", "n", "t", "a", "t", "i", "o", "n", " ",
      "a", "p", "p", "r", "o", "a", "c", "h", ".">>

\* "Please continue with your current approach."
ContinueLine ==
    <<"P", "l", "e", "a", "s", "e", " ", "c", "o", "n", "t", "i", "n", "u",
      "e", " ", "w", "i", "t", "h", " ", "y", "o", "u", "r", " ", "c", "u",
      "r", "r", "e", "n", "t", " ", "a", "p", "p", "r", "o", "a", "c", "h",
      ".">>

\* "I'll help with that."
HelpText ==
    <<"I", "'", "l", "l", " ", "h", "e", "l", "p", " ", "w", "i", "t", "h",
      " ", "t", "h", "a", "t", ".">>

\* The rule tests with the "how"/"should" test placed first.
FallbackBody_HowFirst(question) ==
    LET q == ToLowerCase(question)
    IN  IF Includes(q, <<"h", "o", "w">>)
           \/ Includes(q, <<"s", "h", "o", "u", "l", "d">>)
        THEN <<Judgment1, Judgment2>>
        ELSE IF Includes(q, <<"e", "r", "r", "o", "r">>)
                \/ Includes(q, <<"f", "a", "i", "l", "e", "d">>)
        THEN <<Check1, Check2, Check3>>
        ELSE <<ContinueLine>>

\* The if / else if / else of generateFallbackResponse: the lines pushed for
\* the question.
FallbackBody(question) ==
    LET q == ToLowerCase(question)
    IN  IF Includes(q, <<"e", "r", "r", "o", "r">>)
           \/ Includes(q, <<"f", "a", "i", "l", "e", "d">>)
        THEN <<Check1, Check2, Check3>>
        ELSE IF Includes(q, <<"h", "o", "w">>)
                \/ Includes(q, <<"s", "h", "o", "u", "l", "d">>)
        THEN <<Judgment1, Judgment2>>
        ELSE <<ContinueLine>>

\* generateFallbackResponse(question, context), for a context that has a
\* bindings list.
GenerateFallbackResponse(question, context) ==
    LET head == <<Preamble, <<>> >>
        note == IF Len(context.bindings) > 0
                THEN << NoteHead \o Join(context.bindings, <<",", " ">>) >>
                ELSE <<>>
    IN  Join(head \o note \o FallbackBody(question), <<"\n">>)

\* Ways the call of the OVERSEER_AGENT delegate can end: the binding is absent,
\* fetch throws, the response is not ok, response.json() throws, or the body
\* carries result, only response, or neither.
DelegateOutcomes ==
    {"absent", "throws", "nonOk", "badJson", "result", "response", "neither"}

\* Texts a delegate answers with.
DelegateResult == <<"U", "s", "e", " ", "K", "V">>
DelegateResponse == <<"R", "e", "t", "r", "y">>

\* result.result || result.response || "I'll help with that."
DelegateReply(d) ==
    IF d = "result" THEN DelegateResult
    ELSE IF d = "response" THEN DelegateResponse
    ELSE HelpText

\* JulesInteraction tables a dispatch for (s1, question) may find: empty, or
\* holding one row left by an earlier dispatch, for this or another session
\* and for this or another question.
PriorRows(question) ==
    {<<>>,
     <<InteractionRow("s1", ERROR, question, FALSE)>>,
     <<InteractionRow("s1", AGENT_REPLY, question, TRUE)>>,
     <<InteractionRow("s2", AGENT_REPLY, question, TRUE)>>,
     <<InteractionRow("s1", AGENT_REPLY, QHow, TRUE)>>}

\* A dispatch for session s1 that has read the question, the session's
\* enhancedContext being blob and the JulesInteraction table holding prior.
NewDispatch(question, blob, prior) ==
    [pc |-> "lookup", question |-> question, blob |-> blob, prior |-> prior,
     skipped |-> FALSE,
     context |-> EmptyContext, delegate |-> "none", fallback |-> FALSE,
     reply |-> <<>>, threwAt |-> "none", sends |-> 0, sentText |-> <<>>,
     rows |-> <<>>, returned |-> "none"]

\* The early returns of handleUserFeedback: no agent message to answer, or
\* the loop-prevention lookup found a reply. A throwing findFirst propagates.
LoopPrevention ==
    /\ dispatch.pc = "lookup"
    /\ \E findOk \in BOOLEAN :
         dispatch' =
            IF dispatch.question = <<>>
            THEN [dispatch EXCEPT !.pc = "done", !.returned = "false"]
            ELSE IF ~findOk
            THEN [dispatch EXCEPT !.pc = "threw", !.threwAt = "lookup"]
            ELSE IF ExistingReply(dispatch.prior, "s1", dispatch.question)
            THEN [dispatch EXCEPT !.pc = "done", !.returned = "false",
                                  !.skipped = TRUE]
            ELSE [dispatch EXCEPT !.pc = "parse"]
    /\ UNCHANGED <<monitorVars, poller, overlap>>

\* const context = dbSession.enhancedContext ? JSON.parse(...) : { ... }
ParseContext ==
    /\ dispatch.pc = "parse"
    /\ LET p == ParseEnhancedContext(dispatch.blob)
       IN  dispatch' = IF p.ok
                       THEN [dispatch EXCEPT !.pc = "generate",
                                             !.context = p.context]
                       ELSE [dispatch EXCEPT !.pc = "threw",
                                             !.threwAt = "parse"]
    /\ UNCHANGED <<monitorVars, poller, overlap>>

\* generateIntervention(question, context). The fallback reads
\* context.bindings.length, a TypeError when the context has no bindings list;
\* the call of generateFallbackResponse is outside the try block.
GenerateIntervention ==
    /\ dispatch.pc = "generate"
    /\ \E d \in DelegateOutcomes :
         dispatch' =
            IF d \in {"result", "response", "neither"}
            THEN [dispatch EXCEPT !.pc = "send", !.delegate = d,
                                  !.reply = DelegateReply(d)]
            ELSE IF "bindings" \in dispatch.context.lists
            THEN [dispatch EXCEPT
                    !.pc = "send", !.delegate = d, !.fallback = TRUE,
                    !.reply = GenerateFallbackResponse(dispatch.question,
                                                       dispatch.context)]
            ELSE [dispatch EXCEPT !.pc = "threw", !.delegate = d,
                                  !.threwAt = "generate"]
    /\ UNCHANGED <<monitorVars, poller, overlap>>

\* The try / catch around sendMessage and logInteraction.
SendIntervention ==
    /\ dispatch.pc = "send"
    /\ \E sendOk \in BOOLEAN, replyLogOk \in BOOLEAN, errorLogOk \in BOOLEAN :
         LET tried == [dispatch EXCEPT !.sends = 1,
                                       !.sentText = dispatch.reply]
         IN  dispatch' =
                IF sendOk /\ replyLogOk
                THEN [tried EXCEPT
                        !.pc = "done", !.returned = "true",
                        !.rows = <<InteractionRow("s1", AGENT_REPLY,
                                                  dispatch.question, TRUE)>>]
                ELSE IF errorLogOk
                THEN [tried EXCEPT
                        !.pc = "done", !.returned = "false",
                        !.rows = <<InteractionRow("s1", ERROR,
                                                  dispatch.question, FALSE)>>]
                ELSE [tried EXCEPT !.pc = "threw", !.threwAt = "log"]
    /\ UNCHANGED <<monitorVars, poller, overlap>>

DispatchInit ==
    /\ variant = "client"
    /\ rState = [s \in SessionIds |-> IF s = "s1" THEN "QUEUED" ELSE NoSession]
    /\ rActs = [s \in SessionIds |-> <<>>]
    /\ sessions = <<>>
    /\ activityLog = <<>>
    /\ interactions = <<>>
    /\ pc = "idle"
    /\ batch = <<>>
    /\ hist = FreshHist
    /\ sent = NoCalls
    /\ events = 0
    /\ mirrored = NotYet
    /\ poller = PollerOff
    /\ \E q \in Questions, b \in ContextBlobs :
         \E prior \in PriorRows(q) : dispatch = NewDispatch(q, b, prior)
    /\ overlap = OverlapOff

DispatchNext ==
    \/ LoopPrevention
    \/ ParseContext
    \/ GenerateIntervention
    \/ SendIntervention

DispatchSpec == DispatchInit /\ [][DispatchNext]_vars


\* ------------------------------------------------------------------ stuck sessions
\* Pages of at most MaxActs activities a session may hold.
PagesOf(s) == UNION {[1..n -> ActivitiesOf(s)] : n \in 0..MaxActs}

\* The intervention phase with rows it selects. Discovery stores the state
\* text of the remote listing as it comes (status: extSession.state); here the
\* remote reports the label the stuck query looks for.
StuckInit ==
    /\ variant = "tools"
    /\ rState = [s \in SessionIds |-> "WAITING_FOR_USER_FEEDBACK"]
    /\ rActs \in [SessionIds -> UNION {PagesOf(s) : s \in SessionIds}]
    /\ \A s \in SessionIds : rActs[s] \in PagesOf(s)
    /\ sessions = <<>>
    /\ activityLog = <<>>
    /\ interactions = <<>>
    /\ pc = "idle"
    /\ batch = <<>>
    /\ hist = FreshHist
    /\ sent = NoCalls
    /\ events = 0
    /\ mirrored = NotYet
    /\ poller = PollerOff
    /\ dispatch = DispatchOff
    /\ overlap = OverlapOff

StuckNext ==
    \/ StartRun
    \/ SyncExternalSessions
    \/ LoadActiveSessions
    \/ SyncSession
    \/ FinishActiveSync
    \/ CheckForStuckSessions
    \/ Return

StuckSpec == StuckInit /\ [][StuckNext]_vars

\* The intervention phase while the remote finishes sessions between passes:
\* sessions holding at most one activity, stored under the label the stuck
\* query selects, and completing or failing on the remote afterwards.
StaleInit ==
    /\ StuckInit
    /\ \A s \in SessionIds : Len(rActs[s]) <= 1

StaleNext ==
    \/ \E s \in SessionIds, st \in TerminalStates : RemoteAdvance(s, st)
    \/ StuckNext

StaleSpec == StaleInit /\ [][StaleNext]_vars

\* ------------------------------------------------------------------ overlapping passes
\* Two run() invocations at work on session s1 at once, each suspended at its
\* remote and store calls: syncActivitiesForSession (list, then findFirst and
\* create per activity) followed by the dispatch of handleUserFeedback
\* (loop-prevention findFirst, sendMessage, logInteraction).

\* A pass about to list the activities of s1.
NewPass == [pc |-> "list", page |-> <<>>, idx |-> 1, question |-> <<>>]

\* What is left unchanged by a step of an overlapping pass that writes no row.
overlapFrame ==
    <<variant, rState, rActs, sessions, pc, batch, hist, events, mirrored,
      poller, dispatch>>

\* Position of pass p after activity idx of its page has been dealt with.
AfterActivity(p) ==
    IF overlap[p].idx < Len(overlap[p].page)
    THEN [overlap EXCEPT ![p].pc = "find", ![p].idx = @ + 1]
    ELSE [overlap EXCEPT ![p].pc = "lookup"]

\* response = await julesGetActivityTool.execute({ sessionId, pageSize: 10 });
\* a failure is caught and ends the mirror.
MirrorList(p) ==
    /\ overlap[p].pc = "list"
    /\ \E ok \in BOOLEAN :
         overlap' = IF ok /\ rActs["s1"] # <<>>
                    THEN [overlap EXCEPT ![p].pc = "find",
                                         ![p].page = rActs["s1"]]
                    ELSE [overlap EXCEPT ![p].pc = "lookup",
                                         ![p].page = IF ok THEN rActs["s1"]
                                                     ELSE <<>>]
    /\ UNCHANGED <<overlapFrame, activityLog, interactions, sent>>

\* exists = await prisma.activityLog.findFirst(...) for the activity in hand.
MirrorFind(p) ==
    /\ overlap[p].pc = "find"
    /\ LET act == overlap[p].page[overlap[p].idx]
       IN  overlap' = IF ActivityExists(activityLog, "s1", LastSegment(act.name))
                      THEN AfterActivity(p)
                      ELSE [overlap EXCEPT ![p].pc = "create"]
    /\ UNCHANGED <<overlapFrame, activityLog, interactions, sent>>

\* await prisma.activityLog.create(...) for the activity found missing.
MirrorCreate(p) ==
    /\ overlap[p].pc = "create"
    /\ activityLog' = Append(activityLog,
                             ActivityRow("s1", overlap[p].page[overlap[p].idx]))
    /\ overlap' = AfterActivity(p)
    /\ UNCHANGED <<overlapFrame, interactions, sent>>

\* handleUserFeedback up to the loop-prevention findFirst.
FeedbackLookup(p) ==
    /\ overlap[p].pc = "lookup"
    /\ LET question == FirstAgentMessage(rActs["s1"])
       IN  overlap' =
              IF question = <<>> \/ ExistingReply(interactions, "s1", question)
              THEN [overlap EXCEPT ![p].pc = "done"]
              ELSE [overlap EXCEPT ![p].pc = "send", ![p].question = question]
    /\ UNCHANGED <<overlapFrame, activityLog, interactions, sent>>

\* await julesClient.sendMessage(...); a failure is logged as an ERROR row.
FeedbackSend(p) ==
    /\ overlap[p].pc = "send"
    /\ \E sendOk \in BOOLEAN :
         IF sendOk
         THEN /\ overlap' = [overlap EXCEPT ![p].pc = "log"]
              /\ sent' = [sent EXCEPT !["s1"] = @ + 1]
              /\ UNCHANGED interactions
         ELSE /\ overlap' = [overlap EXCEPT ![p].pc = "done"]
              /\ interactions' = Append(interactions,
                    InteractionRow("s1", ERROR, overlap[p].question, FALSE))
              /\ UNCHANGED sent
    /\ UNCHANGED <<overlapFrame, activityLog>>

\* await logInteraction(..., { type: AGENT_REPLY, ... }) after the send.
FeedbackLog(p) ==
    /\ overlap[p].pc = "log"
    /\ interactions' = Append(interactions,
          InteractionRow("s1", AGENT_REPLY, overlap[p].question, TRUE))
    /\ overlap' = [overlap EXCEPT ![p].pc = "done"]
    /\ UNCHANGED <<overlapFrame, activityLog, sent>>

OverlapInit ==
    /\ variant = "client"
    /\ rState = [s \in SessionIds |->
                    IF s = "s1" THEN "AWAITING_USER_FEEDBACK" ELSE NoSession]
    /\ \E page \in PagesOf("s1") :
         rActs = [s \in SessionIds |-> IF s = "s1" THEN page ELSE <<>>]
    /\ sessions = <<InternalRow("s1", "AWAITING_USER_FEEDBACK")>>
    /\ activityLog = <<>>
    /\ interactions = <<>>
    /\ pc = "idle"
    /\ batch = <<>>
    /\ hist = FreshHist
    /\ sent = NoCalls
    /\ events = 0
    /\ mirrored = NotYet
    /\ poller = PollerOff
    /\ dispatch = DispatchOff
    /\ overlap = [p \in Passes |-> NewPass]

OverlapNext ==
    \E p \in Passes :
        \/ MirrorList(p)
        \/ MirrorFind(p)
        \/ MirrorCreate(p)
        \/ FeedbackLookup(p)
        \/ FeedbackSend(p)
        \/ FeedbackLog(p)

OverlapSpec == OverlapInit /\ [][OverlapNext]_vars

\* ------------------------------------------------------------------ specification
Next ==
    \/ \E s \in SessionIds : RemoteCreate(s)
    \/ \E s \in SessionIds, st \in SessionState : RemoteAdvance(s, st)
    \/ \E s \in SessionIds : \E act \in ActivitiesOf(s) : RemoteEmit(s, act)
    \/ StartRun
    \/ SyncExternalSessions
    \/ LoadActiveSessions
    \/ SyncSession
    \/ FinishActiveSync
    \/ CheckForStuckSessions
    \/ Return
    \/ \E s \in SessionIds : CheckOnJules(s)
    \/ \E s \in SessionIds : HandleUserFeedback(s)
    \/ \E s \in SessionIds : CreateTrackedSession(s)

Spec == Init /\ [][Next]_vars

\* ------------------------------------------------------------------ properties
Terminal(status) == status \in TerminalStates

\* The loop of active sync has processed every loaded row (the phase's
\* observations are complete).
ActiveSyncDone == pc = "activeLoop" /\ batch = <<>>

\* C1: loop prevention. For every session and every question text the
\* JulesInteraction table holds at most one row of type AGENT_REPLY with that
\* sessionId and that julesMessage, whatever passes and dispatches have run.
C1_LoopPrevention ==
    \A i, j \in 1..Len(interactions) :
        ( /\ interactions[i].type = AGENT_REPLY
          /\ interactions[j].type = AGENT_REPLY
          /\ interactions[i].sessionId = interactions[j].sessionId
          /\ interactions[i].julesMessage = interactions[j].julesMessage )
        => i = j

\* C1 witness: the dispatcher acted twice on one question of one session (a
\* failed send logged as ERROR, then a reply) and one AGENT_REPLY row exists.
C1_Witness ==
    \E i, j \in 1..Len(interactions) :
        /\ i < j
        /\ interactions[i].type = ERROR
        /\ interactions[j].type = AGENT_REPLY
        /\ interactions[i].sessionId = interactions[j].sessionId
        /\ interactions[i].julesMessage = interactions[j].julesMessage
        /\ sent[interactions[j].sessionId] = 1

\* C2: at-most-once reply. While a session's activity page (hence its latest
\* agent question) stays the same, at most one sendMessage succeeds for it, on
\* either dispatcher path and whatever the store write after the send did.
C2_AtMostOnceReply == \A s \in SessionIds : sent[s] <= 1

\* C3: Scenario D. When run() is about to return, every stored session whose
\* status is AWAITING_USER_FEEDBACK and whose page carries an agent question has
\* an AGENT_REPLY row for that question, and the pass sent it at most one
\* message.
C3_ScenarioD ==
    pc = "return" =>
        \A s \in SessionIds :
            ( /\ StatusOf(sessions, s) = "AWAITING_USER_FEEDBACK"
              /\ FirstAgentMessage(rActs[s]) # <<>> )
            => /\ ExistingReply(interactions, s, FirstAgentMessage(rActs[s]))
               /\ hist.sentNow[s] <= 1

\* C4: mirror idempotence. No session has two ActivityLog rows with the same
\* stored remote id, and mirroring a page that was already mirrored completely
\* creates no row.
C4_MirrorIdempotence ==
    /\ \A i, j \in 1..Len(activityLog) :
          ( /\ activityLog[i].sessionId = activityLog[j].sessionId
            /\ activityLog[i].remote_id = activityLog[j].remote_id )
          => i = j
    /\ \A s \in SessionIds : hist.rerun[s] # "grew"

\* C4 witness: a non-empty page that had been mirrored was mirrored again.
C4_Witness ==
    \E s \in SessionIds :
        /\ hist.rerun[s] = "same"
        /\ rActs[s] # <<>>
        /\ \E i \in 1..Len(activityLog) :
              /\ activityLog[i].sessionId = s
              /\ activityLog[i].remote_id = LastSegment(rActs[s][1].name)

\* Ids of the JulesSession rows that existed when the pass began.
IdsBefore == {sessions[i].id : i \in 1..hist.rowsBefore}

\* C5: discovery idempotence. Each id has at most one JulesSession row; right
\* after syncExternalSessions() its return value is the number of rows it
\* created, each of them for an id untracked before, with origin EXTERNAL and
\* the state the remote lists; a call whose fetched ids were all tracked
\* created nothing and returned 0.
C5_DiscoveryIdempotence ==
    /\ \A i, j \in 1..Len(sessions) : sessions[i].id = sessions[j].id => i = j
    /\ pc = "activeQuery" =>
          /\ hist.synced = Len(sessions) - hist.rowsBefore
          /\ \A i \in (hist.rowsBefore + 1)..Len(sessions) :
                /\ sessions[i].id \notin IdsBefore
                /\ sessions[i].origin = ORIGIN_EXTERNAL
                /\ sessions[i].status = rState[sessions[i].id]
          /\ (hist.listed.ok /\ hist.listed.ids \subseteq IdsBefore) =>
                (hist.synced = 0 /\ Len(sessions) = hist.rowsBefore)

\* C5 witness: a discovery call listed sessions that were all tracked already.
C5_Witness ==
    /\ pc = "activeQuery"
    /\ hist.listed.ok
    /\ hist.listed.ids # {}
    /\ hist.listed.ids \subseteq IdsBefore
    /\ hist.synced = 0

\* C6: completedAt is non-null exactly for the rows whose status is COMPLETED
\* or FAILED.
C6_CompletedAtIff ==
    \A i \in 1..Len(sessions) :
        (sessions[i].completedAt = "set") <=> Terminal(sessions[i].status)

\* C7: status convergence. When the loop of active sync is over, every session
\* that was stored non-terminal, whose status fetch succeeded and whose update
\* did not throw, has the status the remote reports, with completedAt set
\* exactly when that status is terminal.
C7_StatusConvergence ==
    ActiveSyncDone =>
        \A i \in 1..Len(sessions) :
            LET s == sessions[i].id
            IN  ( /\ hist.startStatus[s] \notin (TerminalStates \cup {NoSession})
                  /\ hist.fetched[s] # NoSession
                  /\ ~hist.updateFailed[s] )
                => /\ sessions[i].status = rState[s]
                   /\ (sessions[i].completedAt = "set") <=> Terminal(rState[s])

\* C8: quota conservation. Active sync issues no remote call for a session
\* whose stored status was COMPLETED or FAILED (or that was not stored) when the
\* phase began, and at most two for any other session.
C8_QuotaConservation ==
    \A s \in SessionIds :
        /\ hist.calls[s] <= 2
        /\ hist.startStatus[s] \in (TerminalStates \cup {NoSession})
              => hist.calls[s] = 0

\* C8 witness: a phase that skipped a terminal session and spent two calls on
\* an active one.
C8_Witness ==
    /\ ActiveSyncDone
    /\ \E s, t \in SessionIds :
          /\ Terminal(hist.startStatus[s])
          /\ hist.calls[s] = 0
          /\ hist.calls[t] = 2

\* Smallest delay one iteration of the poll loop ends with.
MinDelay(options) ==
    IF options.intervalMs < ApproveDelayMs THEN options.intervalMs
    ELSE ApproveDelayMs

\* C9: poller auto-approval. With autoApprove on, a monitor() invocation that
\* saw AWAITING_PLAN_APPROVAL on two or more consecutive polls (one such run of
\* polls) and returned COMPLETED has called approvePlan exactly once.
C9_ApproveOnce ==
    ( /\ poller.pc = "done"
      /\ poller.opts.autoApprove
      /\ poller.apaRuns = 1
      /\ poller.apaRepeated
      /\ poller.result.status = "COMPLETED" )
    => poller.approves = 1

\* C10: poller timeout. The deadline is tested before each poll: a poll starts
\* only with the elapsed time below the effective timeoutMs, and each earlier
\* iteration moved the clock by a positive delay, which bounds the number of
\* iterations.  The loop is left only with the elapsed time at or beyond
\* timeoutMs; then exactly one more getSession is performed and the result is
\* TIMEOUT with the snapshot of that last call.  An invocation whose remote
\* calls succeed and whose polls never report a decision state returns
\* nothing but TIMEOUT.
C10_PollerTimeout ==
    /\ poller.pc \in {"check", "fetch"} =>
          /\ MinDelay(poller.opts) > 0
          /\ poller.now >= poller.polls * MinDelay(poller.opts)
          /\ poller.finals = 0
    /\ poller.pc = "fetch" => poller.now < poller.opts.timeoutMs
    /\ poller.pc = "final" =>
          /\ poller.exitAt >= poller.opts.timeoutMs
          /\ poller.finals = 0
    /\ (poller.pc = "done" /\ poller.result.status = "TIMEOUT") =>
          /\ poller.exitAt >= poller.opts.timeoutMs
          /\ poller.finals = 1
          /\ poller.result.session.fetch = poller.polls
    /\ (poller.pc = "done" /\ poller.result.status # "TIMEOUT") =>
          poller.finals = 0
    /\ (poller.pc = "done" /\ poller.waitingOnly) =>
          poller.result.status = "TIMEOUT"

\* C10 witness: an invocation with a configured timeout of three seconds whose
\* polls all reported waiting states, auto-approved at least once, and that
\* returned TIMEOUT after its final fetch.
C10_Witness ==
    /\ poller.pc = "done"
    /\ poller.opts.timeoutMs = 3000
    /\ poller.waitingOnly
    /\ poller.approves >= 1
    /\ poller.polls >= 3
    /\ poller.finals = 1
    /\ poller.result.status = "TIMEOUT"

\* C11: run() never throws. No pass of run() ends with an exception reaching
\* scheduled(), whatever remote and store calls fail.
C11_RunNeverThrows == pc # "threw"

\* A stored row that was non-terminal when active sync began.
WasActive(row) == hist.startStatus[row.id] \notin (TerminalStates \cup {NoSession})

\* Ids of a sequence of rows, in order.
IdsOf(rows) == [i \in 1..Len(rows) |-> rows[i].id]

\* C12: per-session isolation of active sync. Throughout the loop the rows
\* taken up so far followed by the rows still to process are the rows the
\* query loaded, in store order, whatever failed for the earlier ones; every
\* row taken up had its status fetch issued, and its mirror invoked unless its
\* own status fetch or status update failed.
C12_ActiveSyncIsolation ==
    pc = "activeLoop" =>
        /\ hist.processed \o IdsOf(batch) = IdsOf(SelectSeq(sessions, WasActive))
        /\ \A i \in 1..Len(hist.processed) :
              LET s == hist.processed[i]
              IN  /\ hist.calls[s] >= 1
                  /\ (hist.fetched[s] # NoSession /\ ~hist.updateFailed[s])
                        => hist.calls[s] = 2

\* C12 witness: the loop is over, the status fetch of the first loaded row
\* failed, and the second row was fetched and mirrored.
C12_Witness ==
    /\ ActiveSyncDone
    /\ Len(hist.processed) = 2
    /\ hist.fetched[hist.processed[1]] = NoSession
    /\ hist.calls[hist.processed[1]] = 1
    /\ hist.fetched[hist.processed[2]] # NoSession
    /\ hist.calls[hist.processed[2]] = 2

\* C14: discovery is all-or-nothing. Right after syncExternalSessions(), a
\* call that met an error (failing list call, or a store call failing while
\* the page was processed) returned 0 and left the JulesSession table as it
\* was; a call that met none tracks every session of the fetched page.
C14_DiscoveryAllOrNothing ==
    pc = "activeQuery" =>
        /\ hist.listed.failed =>
              /\ hist.synced = 0
              /\ Len(sessions) = hist.rowsBefore
        /\ (hist.listed.ok /\ ~hist.listed.failed) =>
              \A s \in hist.listed.ids : SessionExists(sessions, s)

\* C15: phase composition. A pass of run() that ends (by returning or by
\* throwing) has entered discovery, active sync and the intervention phase,
\* each once and in that order.
C15_PhaseComposition ==
    pc \in {"return", "threw"} =>
        hist.phases = <<"discovery", "activeSync", "interventions">>

\* C20: mirror completeness. Once the page of a session has been mirrored
\* without error, every activity of the page has an ActivityLog row of the
\* session whose stored remote id is the last path segment of its name.
C20_MirrorCompleteness ==
    \A s \in SessionIds :
        mirrored[s] =>
            \A i \in 1..Len(rActs[s]) :
                \E k \in 1..Len(activityLog) :
                    /\ activityLog[k].sessionId = s
                    /\ activityLog[k].remote_id = LastSegment(rActs[s][i].name)

C17_FallbackRule ==
    dispatch.pc # "off" /\ dispatch.fallback =>
        LET q == ToLowerCase(dispatch.question)
            r == dispatch.reply
            b == dispatch.context.bindings
            isErr == \/ Includes(q, <<"e", "r", "r", "o", "r">>)
                     \/ Includes(q, <<"f", "a", "i", "l", "e", "d">>)
            isHow == \/ Includes(q, <<"h", "o", "w">>)
                     \/ Includes(q, <<"s", "h", "o", "u", "l", "d">>)
            head == Preamble \o <<"\n", "\n">>
            note == IF b = <<>> THEN <<>>
                    ELSE NoteHead \o Join(b, <<",", " ">>) \o <<"\n">>
            body == SubSeq(r, Len(head) + Len(note) + 1, Len(r))
            checklist == Check1 \o <<"\n">> \o Check2 \o <<"\n">> \o Check3
            judgment == Judgment1 \o <<"\n">> \o Judgment2
        IN  /\ SubSeq(r, 1, Len(head)) = head
            /\ SubSeq(r, Len(head) + 1, Len(head) + Len(note)) = note
            /\ Includes(r, NoteHead) <=> b # <<>>
            /\ body \in {checklist, judgment, ContinueLine}
            /\ body = checklist <=> isErr
            /\ body = judgment <=> (~isErr /\ isHow)
            /\ body = ContinueLine <=> (~isErr /\ ~isHow)
            /\ r = GenerateFallbackResponse(dispatch.question, dispatch.context)

\* C17 witness: the fallback answered a question containing both "how" and
\* "error", for a context with two bindings, with the checklist.
C17_Witness ==
    /\ dispatch.pc # "off"
    /\ dispatch.fallback
    /\ Includes(ToLowerCase(dispatch.question), <<"h", "o", "w">>)
    /\ Includes(ToLowerCase(dispatch.question), <<"e", "r", "r", "o", "r">>)
    /\ Len(dispatch.context.bindings) = 2
    /\ Includes(dispatch.reply, Check1)
    /\ ~Includes(dispatch.reply, Judgment1)

\* C18: delegate unreachability never fails an intervention. Once
\* generateIntervention has run with the delegate binding absent, its call
\* throwing or its response not ok, it has returned the fallback reply, and a
\* dispatch that is over has called sendMessage with that text.
C18_DelegateFallback ==
    ( /\ dispatch.pc # "off"
      /\ dispatch.delegate \in {"absent", "throws", "nonOk"} )
    => /\ dispatch.threwAt # "generate"
       /\ dispatch.fallback
       /\ dispatch.pc \in {"done", "threw"} =>
             (dispatch.sends = 1 /\ dispatch.sentText = dispatch.reply)

\* C19: context defaulting. A dispatch whose session has an absent or
\* malformed enhancedContext, or one lacking the four lists, gets past the
\* parse with the empty context and does not fail in reply generation.
C19_ContextDefaulting ==
    ( /\ dispatch.pc \notin {"off", "parse"}
      /\ \/ dispatch.blob.kind \in {"null", "empty", "malformed"}
         \/ dispatch.blob.lists # ListNames )
    => /\ dispatch.threwAt \notin {"parse", "generate"}
       /\ dispatch.context = EmptyContext

\* C22: poller feedback states. A monitor() invocation that returned on a
\* snapshot in state AWAITING_USER_FEEDBACK or PAUSED returned NEEDS_INPUT,
\* has called listActivities once, and its lastMessage is a text (the agent
\* message of the latest activity, or the generic one).
C22_FeedbackStates ==
    ( /\ poller.pc = "done"
      /\ poller.result.session.state \in {"AWAITING_USER_FEEDBACK", "PAUSED"}
      /\ poller.finals = 0 )
    => /\ poller.result.status = "NEEDS_INPUT"
       /\ poller.lists = 1
       /\ poller.result.lastMessage # <<>>

\* C23: auto-approval disabled. With autoApprove off, approvePlan is never
\* called, and a poll that reads AWAITING_PLAN_APPROVAL ends the invocation
\* at once: the result is NEEDS_INPUT with the snapshot of that poll, no time
\* passes after the fetch, and no invocation goes back to the loop head with
\* that state as the last one seen.
C23_ManualApproval ==
    (poller.pc # "off" /\ ~poller.opts.autoApprove) =>
        /\ poller.approves = 0
        /\ ( /\ poller.lastState = "AWAITING_PLAN_APPROVAL"
             /\ poller.pc \notin {"threw"} )
           => /\ poller.pc = "done"
              /\ poller.result.status \in {"NEEDS_INPUT"}
              /\ poller.result.session.state = "AWAITING_PLAN_APPROVAL"
              /\ poller.result.session.fetch = poller.polls
              /\ poller.now = poller.fetchedAt

\* C23 witness: with autoApprove off, an invocation polled a waiting state,
\* then read AWAITING_PLAN_APPROVAL and returned.
C23_Witness ==
    /\ poller.pc = "done"
    /\ ~poller.opts.autoApprove
    /\ poller.polls = 2
    /\ poller.now > 0
    /\ poller.result.status = "NEEDS_INPUT"
    /\ poller.result.session.state = "AWAITING_PLAN_APPROVAL"

\* C24: transition reporting. The number of state-change reports the logger
\* has received equals the number of fetched snapshots whose state differed
\* from the previously fetched one, the final fetch after a timeout included.
C24_TransitionReports ==
    poller.pc # "off" => poller.reports = poller.changes

\* C29: poller totality. No monitor() invocation ends with an exception, and
\* one that ended returned COMPLETED, FAILED, NEEDS_INPUT or TIMEOUT.
C29_PollerTotality ==
    /\ poller.pc # "threw"
    /\ poller.pc = "done" =>
          poller.result.status \in {"COMPLETED", "FAILED", "NEEDS_INPUT", "TIMEOUT"}

\* C21: one InteractionRecord per dispatch attempt. Every message sent to a
\* session since its activity page last changed has its own JulesInteraction
\* row of type AGENT_REPLY with isSuccess true, on either dispatcher path.
C21_RecordPerAttempt ==
    \A s \in SessionIds :
        sent[s] <= Cardinality({i \in 1..Len(interactions) :
                                   /\ interactions[i].sessionId = s
                                   /\ interactions[i].type = AGENT_REPLY
                                   /\ interactions[i].isSuccess})

\* C25: freshness publication. A run() that returns on a deployment with the
\* KV binding has written DASHBOARD_LAST_SYNC during that run.
C25_FreshnessPublished ==
    pc = "return" => hist.freshness \in {"written", "unconfigured"}

\* C26: record frame. Every step keeps the rows of the three tables in place:
\* JulesSession rows are only appended, and an existing row changes only in
\* the iteration of active sync that handles it and only when the remote state
\* read differs from its status; discovery leaves every existing row as it
\* is; ActivityLog and JulesInteraction rows are only appended.
C26_RecordFrame ==
    [][ /\ Len(sessions') >= Len(sessions)
        /\ \A i \in 1..Len(sessions) :
              /\ sessions'[i].id = sessions[i].id
              /\ sessions'[i].origin = sessions[i].origin
              /\ sessions'[i] # sessions[i] =>
                    /\ pc = "activeLoop"
                    /\ batch # <<>>
                    /\ Head(batch).id = sessions[i].id
                    /\ RemoteSessionState(sessions[i].id) # sessions[i].status
        /\ Len(activityLog') >= Len(activityLog)
        /\ SubSeq(activityLog', 1, Len(activityLog)) = activityLog
        /\ Len(interactions') >= Len(interactions)
        /\ SubSeq(interactions', 1, Len(interactions)) = interactions
      ]_vars

\* C26 witness: active sync has closed one row, and discovery has just listed
\* an already tracked session whose remote state differs from the stored
\* status and left its row as it was.
C26_Witness ==
    /\ pc = "activeQuery"
    /\ hist.listed.ok
    /\ \E i \in 1..hist.rowsBefore :
          /\ sessions[i].id \in hist.listed.ids
          /\ sessions[i].status # rState[sessions[i].id]
    /\ \E j \in 1..Len(sessions) :
          /\ sessions[j].completedAt = "set"
          /\ sessions[j].origin = ORIGIN_EXTERNAL

C28_FailedSendRetried ==
    LET q == dispatch.question
        replied == \E i \in 1..Len(dispatch.prior) :
                      /\ dispatch.prior[i].sessionId = "s1"
                      /\ dispatch.prior[i].type = AGENT_REPLY
                      /\ dispatch.prior[i].julesMessage = q
        failedBefore == \E i \in 1..Len(dispatch.prior) :
                           /\ dispatch.prior[i].sessionId = "s1"
                           /\ dispatch.prior[i].type = ERROR
                           /\ dispatch.prior[i].julesMessage = q
    IN  ( /\ dispatch.pc \notin {"off", "lookup"}
          /\ q # <<>>
          /\ dispatch.threwAt # "lookup" )
        => /\ dispatch.skipped <=> replied
           /\ dispatch.skipped => dispatch.sends = 0
           /\ (failedBefore /\ dispatch.pc = "done") => dispatch.sends = 1

\* C28 witness: the table held an ERROR row for the question, the dispatch
\* sent the reply again and recorded it as AGENT_REPLY.
C28_Witness ==
    /\ dispatch.pc = "done"
    /\ dispatch.prior # <<>>
    /\ dispatch.prior[1].type = ERROR
    /\ dispatch.prior[1].julesMessage = dispatch.question
    /\ dispatch.sends = 1
    /\ dispatch.rows # <<>>
    /\ dispatch.rows[1].type = AGENT_REPLY

\* C30: overlapping passes. While two passes work on one session at once, no
\* session has two ActivityLog rows with the same remote id and no (session,
\* question) has two AGENT_REPLY rows.
C30_OverlapDedup ==
    /\ \A i, j \in 1..Len(activityLog) :
          ( /\ activityLog[i].sessionId = activityLog[j].sessionId
            /\ activityLog[i].remote_id = activityLog[j].remote_id )
          => i = j
    /\ \A i, j \in 1..Len(interactions) :
          ( /\ interactions[i].type = AGENT_REPLY
            /\ interactions[j].type = AGENT_REPLY
            /\ interactions[i].sessionId = interactions[j].sessionId
            /\ interactions[i].julesMessage = interactions[j].julesMessage )
          => i = j

====
